---- MODULE Spec2Model ----
(***************************************************************************)
(* The taint abstract machine (JSMachine), the native model registry and  *)
(* the native model implementations of augur, as state machines: Spec,    *)
(* SpecNative and SpecModels.                                              *)
(*                                                                         *)
(* Values held by the taint stack and the maps are JavaScript values:      *)
(*   "T"  true   (the tainted marker)                                      *)
(*   "F"  false  (the untainted marker)                                    *)
(*   "U"  undefined (Array.pop on an empty array, Map.get of a missing key,*)
(*        a missing property)                                              *)
(*   "Fn" a function object inherited from Object.prototype (the value of  *)
(*        ({})["toString"]); it is truthy.                                 *)
(***************************************************************************)
EXTENDS Integers, Sequences, FiniteSets, TLC

\* ---------------------------------------------------------------- bounds
\* Longest event trace explored.
MaxOps == 4
\* Largest expectedArgs / actualArgs of a functionCall event.
MaxArgs == 2
\* Most native calls recorded and not yet replayed.
MaxPending == 2
\* Most machine events of a trace with native model calls.
MaxEvents == 2
\* Most native model calls of a trace.
MaxCalls == 1
\* Largest actualArgs of a native call.
MaxNativeArgs == 2
\* Largest receiver length the array-push recorder sees.
MaxPrevLen == 2

\* ------------------------------------------------------- input domains
\* Variable names of the analysed program (the s of readVar/writeVar/initVar).
VarNames == {"userInput", "temp", "output"}
\* Object identities (the o of readProperty/writeProperty).
ObjectIds == {"o1"}
\* Property keys (the s of readProperty/writeProperty).
Keys == {"userInput", "k", "toString"}
\* Values push(v: boolean) can be given.
Booleans == {"T", "F"}
\* The constructor's options: sources and sinks (sinks in array order).
Options ==
    { [sources |-> {},                      sinks |-> <<"output">>],
      [sources |-> {"userInput"},           sinks |-> <<"output">>],
      [sources |-> {"userInput", "output"}, sinks |-> <<"output", "temp">>] }

\* --------------------------------------------------- JavaScript values
Values == {"T", "F", "U", "Fn"}

\* Property names every object literal inherits from Object.prototype.
ObjectPrototypeKeys == {"toString", "constructor", "valueOf", "hasOwnProperty"}

Truthy(v) == v \in {"T", "Fn"}

\* a || b
Or(a, b) == IF Truthy(a) THEN a ELSE b

\* Map.prototype.get: undefined for a missing key.
MapGet(m, k) == IF k \in DOMAIN m THEN m[k] ELSE "U"

\* Map.prototype.set / obj[k] = v.
MapSet(m, k, v) == [x \in (DOMAIN m) \cup {k} |-> IF x = k THEN v ELSE m[x]]

\* rec[k] on an object created by the literal {}: own property, else the
\* member inherited from Object.prototype, else undefined.
PropGet(rec, k) ==
    IF k \in DOMAIN rec THEN rec[k]
    ELSE IF k \in ObjectPrototypeKeys THEN "Fn"
    ELSE "U"

EmptyMap == [x \in {} |-> "U"]

\* Variant: a missing top of stack read as the tainted marker.
Top_TaintedDefault(st) == IF Len(st) = 0 THEN "T" ELSE st[Len(st)]

\* arr[arr.length - 1]: undefined on an empty array.
Top(st) == IF Len(st) = 0 THEN "U" ELSE st[Len(st)]

\* The array after arr.pop(): unchanged when empty.
PopStack(st) == IF Len(st) = 0 THEN st ELSE SubSeq(st, 1, Len(st) - 1)

\* The array after n calls of arr.pop().
PopN(st, n) == IF n >= Len(st) THEN <<>> ELSE SubSeq(st, 1, Len(st) - n)

\* The values n calls of arr.pop() return, in the order returned.
Popped(st, n) ==
    [i \in 1..n |-> IF i <= Len(st) THEN st[Len(st) - i + 1] ELSE "U"]

VARIABLES
    taintStack,     \* JSMachine.taintStack
    varTaintMap,    \* JSMachine.varTaintMap
    sources,        \* JSMachine.sources
    sinks,          \* JSMachine.sinks (in insertion order)
    objects,        \* JSMachine.objects: identity -> property record
    state,          \* JSMachine.state: "None" | "FunctionCall"
    stateCounter,   \* JSMachine.stateCounter
    ret,            \* value returned by the last operation
    taints,         \* result of the last getTaint()
    lastOp,         \* the last operation and its arguments
    nOps,           \* number of operations executed
    call,           \* the last functionCall and the parameters bound since
    pushedTaint,    \* whether push(true) was ever executed
    scen,           \* progress of the trace readVar(s) writeVar(x) readVar(x) writeVar(t)
    recorded,       \* native calls recorded and not yet replayed
    nativeResult,   \* outcome of the last native recorder/implementation use
    nm,             \* the machine the native model implementations run on
    ncall,          \* the native call in progress and what was observed of it
    nSteps          \* machine events and native calls of the trace so far

machineVars == <<taintStack, varTaintMap, sources, sinks, objects, state,
                 stateCounter, ret, taints, lastOp, nOps, call, pushedTaint, scen>>
modelVars == <<nm, ncall, nSteps>>
nativeVars == <<recorded, nativeResult, modelVars>>
vars == <<machineVars, nativeVars>>

\* ---------------------------------- the machine native models run on
\* Shadow object names (receiverName, and the ids defineProperty records).
ShadowIds == {"arr", "obj", "desc"}

\* A shadow object: taints by array index and by property name.
EmptyShadow == [idx |-> EmptyMap, named |-> EmptyMap]

\* machine.getUntaintedValue()
Untainted == "F"

\* machine.join(a, b) on boolean taints.
Join(a, b) == Or(a, b)

\* The machine after construction.
NewMachine ==
    [taintStack |-> <<>>,
     shadow |-> [o \in ShadowIds |-> EmptyShadow],
     callstack |-> <<>>,
     advice |-> "none",
     returnValue |-> Untainted,
     argsLeftToProcess |-> 0,
     flows |-> <<>>]

\* The record a recorder returns: a number (previous length, argument
\* index), a name, or neither.
Rec(n, name) == [n |-> n, name |-> name]

NoNativeCall ==
    [phase |-> "idle", op |-> "none", name |-> "-", model |-> "-",
     isMethod |-> FALSE, actualArgs |-> 0, values |-> <<>>, record |-> Rec(0, "-"),
     outcome |-> "none", pre |-> <<>>, builtinTaint |-> "U",
     receiverTaint |-> "U", args |-> <<>>, before |-> NewMachine, ret |-> "U",
     index |-> 0, key |-> "-", overwritten |-> {}]

\* ------------------------------------------------ history bookkeeping
NoNativeResult == [phase |-> "none", name |-> "-", model |-> "-",
                   recModel |-> "-", outcome |-> "none"]

Op(op, s, o, e, a) == [op |-> op, s |-> s, o |-> o, e |-> e, a |-> a]

NoOp == Op("none", "-", "-", 0, 0)

\* The pending call: active once a functionCall ran; e, a its arguments;
\* full whether the stack held at least a entries; base the stack beneath
\* them; args the a argument taints in source order; bound the values
\* bound by initVar since; interrupted whether one of push, pop, readVar,
\* writeVar, readProperty, writeProperty, unaryOp, binaryOp ran since.
NoCall == [active |-> FALSE, e |-> 0, a |-> 0, full |-> FALSE, base |-> <<>>,
           args |-> <<>>, bound |-> <<>>, interrupted |-> FALSE]

ScenDead == <<"#", "#", "#", "#", "#">>

\* The next position in the trace readVar(s), writeVar(x), readVar(x),
\* writeVar(t) run on a fresh machine, s a source and t a sink.
ScenNext(op) ==
    CASE scen = <<>> /\ nOps = 0 /\ op.op = "readVar" /\ op.s \in sources
            -> <<op.s>>
      [] Len(scen) = 1 /\ op.op = "writeVar"
            -> Append(scen, op.s)
      [] Len(scen) = 2 /\ op.op = "readVar" /\ op.s = scen[2]
            -> Append(scen, op.s)
      [] Len(scen) = 3 /\ op.op = "writeVar"
                       /\ \E i \in 1..Len(sinks) : sinks[i] = op.s
            -> Append(scen, op.s)
      [] OTHER -> ScenDead

CallReset ==
    IF call.active THEN [call EXCEPT !.interrupted = TRUE] ELSE call

History(op) ==
    /\ nOps < MaxOps
    /\ nOps' = nOps + 1
    /\ lastOp' = op
    /\ scen' = ScenNext(op)

\* ------------------------------------------------------ the machine
resetState_KeepsCounter ==
    /\ state' = "None"
    /\ UNCHANGED stateCounter

\* private resetState()
resetState ==
    /\ state' = "None"
    /\ stateCounter' = 0

\* Variant: readVar without the source override.
ReadVarResult_NoOverride(s) == MapGet(varTaintMap, s)

\* readVar: const r = this.sources.has(s) || this.varTaintMap.get(s)
ReadVarResult(s) == Or(IF s \in sources THEN "T" ELSE "F", MapGet(varTaintMap, s))

\* writeVar: const v = this.sources.has(s) || top of taintStack
WriteVarValue(s) == Or(IF s \in sources THEN "T" ELSE "F", Top(taintStack))

\* readProperty: isSource || (storedTaint && storedTaint[s])
ReadPropertyResult(o, s) ==
    LET isSource == IF s \in sources THEN "T" ELSE "F"
        stored   == IF o \in DOMAIN objects THEN PropGet(objects[o], s) ELSE "U"
    IN  Or(isSource, stored)

\* writeProperty: this.sources.has(s.toString()) || storedTaint
WritePropertyValue(s) == Or(IF s \in sources THEN "T" ELSE "F", Top(taintStack))

\* binaryOp: taintStack.push(taintStack.pop() || taintStack.pop());
\* the second pop is evaluated only when the first value is falsy.
BinaryOpStack(st) ==
    IF Truthy(Top(st)) THEN Append(PopStack(st), Top(st))
    ELSE Append(PopStack(PopStack(st)), Top(PopStack(st)))

\* functionCall: the stack after realignment.
FunctionCallStack(st, expectedArgs, actualArgs) ==
    LET popped    == Popped(st, actualArgs)
        padding   == [i \in 1..(expectedArgs - actualArgs) |-> "F"]
        tempStack == popped \o padding
        afterArgs == PopN(st, actualArgs)
        afterDrop == IF expectedArgs < actualArgs
                     THEN PopN(afterArgs, actualArgs - expectedArgs)
                     ELSE afterArgs
    IN  afterDrop \o tempStack

\* getTaint: [...sinks].filter(s => varTaintMap.get(s))
GetTaint == SelectSeq(sinks, LAMBDA s : Truthy(MapGet(varTaintMap, s)))

Init ==
    /\ taintStack = <<>>
    /\ varTaintMap = EmptyMap
    /\ \E opt \in Options : sources = opt.sources /\ sinks = opt.sinks
    /\ objects = EmptyMap
    /\ state = "None"
    /\ stateCounter = 0
    /\ ret = "U"
    /\ taints = <<>>
    /\ lastOp = NoOp
    /\ nOps = 0
    /\ call = NoCall
    /\ pushedTaint = FALSE
    /\ scen = <<>>
    /\ recorded = <<>>
    /\ nativeResult = NoNativeResult
    /\ nm = NewMachine
    /\ ncall = NoNativeCall
    /\ nSteps = [events |-> 0, calls |-> 0]

Push(v) ==
    /\ History(Op("push", v, "-", 0, 0))
    /\ resetState
    /\ taintStack' = Append(taintStack, v)
    /\ ret' = "U"
    /\ call' = CallReset
    /\ pushedTaint' = (pushedTaint \/ v = "T")
    /\ UNCHANGED <<varTaintMap, sources, sinks, objects, taints, nativeVars>>

Pop ==
    /\ History(Op("pop", "-", "-", 0, 0))
    /\ resetState
    /\ taintStack' = PopStack(taintStack)
    /\ ret' = "U"
    /\ call' = CallReset
    /\ UNCHANGED <<varTaintMap, sources, sinks, objects, taints, pushedTaint, nativeVars>>

ReadVar(s) ==
    /\ History(Op("readVar", s, "-", 0, 0))
    /\ resetState
    /\ taintStack' = Append(taintStack, ReadVarResult(s))
    /\ ret' = ReadVarResult(s)
    /\ call' = CallReset
    /\ UNCHANGED <<varTaintMap, sources, sinks, objects, taints, pushedTaint, nativeVars>>

\* Variant: writeVar consuming the pending value.
WriteVar_Pops(s) ==
    /\ History(Op("writeVar", s, "-", 0, 0))
    /\ resetState
    /\ varTaintMap' = MapSet(varTaintMap, s, WriteVarValue(s))
    /\ taintStack' = PopStack(taintStack)
    /\ ret' = "U"
    /\ call' = CallReset
    /\ UNCHANGED <<sources, sinks, objects, taints, pushedTaint, nativeVars>>

WriteVar(s) ==
    /\ History(Op("writeVar", s, "-", 0, 0))
    /\ resetState
    /\ varTaintMap' = MapSet(varTaintMap, s, WriteVarValue(s))
    /\ ret' = "U"
    /\ call' = CallReset
    /\ UNCHANGED <<taintStack, sources, sinks, objects, taints, pushedTaint, nativeVars>>

ReadProperty(o, s) ==
    /\ History(Op("readProperty", s, o, 0, 0))
    /\ resetState
    /\ taintStack' = Append(taintStack, ReadPropertyResult(o, s))
    /\ ret' = ReadPropertyResult(o, s)
    /\ call' = CallReset
    /\ UNCHANGED <<varTaintMap, sources, sinks, objects, taints, pushedTaint, nativeVars>>

WriteProperty(o, s) ==
    /\ History(Op("writeProperty", s, o, 0, 0))
    /\ resetState
    /\ LET rec == IF o \in DOMAIN objects THEN objects[o] ELSE EmptyMap
       IN  objects' = MapSet(objects, o, MapSet(rec, s, WritePropertyValue(s)))
    /\ taintStack' = PopStack(taintStack)
    /\ ret' = "U"
    /\ call' = CallReset
    /\ UNCHANGED <<varTaintMap, sources, sinks, taints, pushedTaint, nativeVars>>

\* Variant: unaryOp as a pure no-op, without resetState().
UnaryOp_NoReset ==
    /\ History(Op("unaryOp", "-", "-", 0, 0))
    /\ ret' = "U"
    /\ UNCHANGED <<taintStack, varTaintMap, sources, sinks, objects, state,
                   stateCounter, taints, call, pushedTaint, nativeVars>>

UnaryOp ==
    /\ History(Op("unaryOp", "-", "-", 0, 0))
    /\ resetState
    /\ ret' = "U"
    /\ call' = CallReset
    /\ UNCHANGED <<taintStack, varTaintMap, sources, sinks, objects, taints,
                   pushedTaint, nativeVars>>

BinaryOp ==
    /\ History(Op("binaryOp", "-", "-", 0, 0))
    /\ resetState
    /\ taintStack' = BinaryOpStack(taintStack)
    /\ ret' = "U"
    /\ call' = CallReset
    /\ UNCHANGED <<varTaintMap, sources, sinks, objects, taints, pushedTaint, nativeVars>>

\* Variant: the binding branch taken without looking at stateCounter.
InitVarBinds_NoCounter == state = "FunctionCall"

\* initVar, the parameter-binding branch.
InitVarBinds == state = "FunctionCall" /\ stateCounter > 0

InitVar(s) ==
    /\ History(Op("initVar", s, "-", 0, 0))
    /\ ret' = "U"
    /\ IF InitVarBinds
       THEN /\ taintStack' = PopStack(taintStack)
            /\ varTaintMap' = MapSet(varTaintMap, s, Top(taintStack))
            /\ stateCounter' = stateCounter - 1
            /\ call' = [call EXCEPT !.bound = Append(@, Top(taintStack))]
            /\ UNCHANGED state
       ELSE /\ resetState
            /\ UNCHANGED <<taintStack, varTaintMap, call>>
    /\ UNCHANGED <<sources, sinks, objects, taints, pushedTaint, nativeVars>>

FunctionCall(expectedArgs, actualArgs) ==
    /\ History(Op("functionCall", "-", "-", expectedArgs, actualArgs))
    /\ taintStack' = FunctionCallStack(taintStack, expectedArgs, actualArgs)
    /\ state' = "FunctionCall"
    /\ stateCounter' = expectedArgs
    /\ ret' = "U"
    /\ call' = [active |-> TRUE,
                e      |-> expectedArgs,
                a      |-> actualArgs,
                full   |-> Len(taintStack) >= actualArgs,
                base   |-> PopN(taintStack, actualArgs),
                args   |-> [i \in 1..actualArgs |->
                              Popped(taintStack, actualArgs)[actualArgs - i + 1]],
                bound  |-> <<>>,
                interrupted |-> FALSE]
    /\ UNCHANGED <<varTaintMap, sources, sinks, objects, taints, pushedTaint, nativeVars>>

EndExecution ==
    /\ History(Op("endExecution", "-", "-", 0, 0))
    /\ ret' = "U"
    /\ UNCHANGED <<taintStack, varTaintMap, sources, sinks, objects, state,
                   stateCounter, taints, call, pushedTaint, nativeVars>>

GetTaintCall_Resets ==
    /\ History(Op("getTaint", "-", "-", 0, 0))
    /\ taints' = GetTaint
    /\ ret' = "U"
    /\ resetState
    /\ UNCHANGED <<taintStack, varTaintMap, sources, sinks, objects, call,
                   pushedTaint, nativeVars>>

GetTaintCall ==
    /\ History(Op("getTaint", "-", "-", 0, 0))
    /\ taints' = GetTaint
    /\ ret' = "U"
    /\ UNCHANGED <<taintStack, varTaintMap, sources, sinks, objects, state,
                   stateCounter, call, pushedTaint, nativeVars>>

Next ==
    \/ \E v \in Booleans : Push(v)
    \/ Pop
    \/ \E s \in VarNames : ReadVar(s)
    \/ \E s \in VarNames : WriteVar(s)
    \/ \E o \in ObjectIds, s \in Keys : ReadProperty(o, s)
    \/ \E o \in ObjectIds, s \in Keys : WriteProperty(o, s)
    \/ UnaryOp
    \/ BinaryOp
    \/ \E s \in VarNames : InitVar(s)
    \/ \E e \in 0..MaxArgs, a \in 0..MaxArgs : FunctionCall(e, a)
    \/ EndExecution
    \/ GetTaintCall

Spec == Init /\ [][Next]_vars

\* ------------------------------------------- the native model registry
\* The own properties of the object literal `models`.
RegisteredModels == {"push", "join", "defineProperty", "map", "call", "max"}

\* Names of built-ins the instrumented program may call (description.name).
BuiltinNames ==
    RegisteredModels \cup {"slice", "indexOf", "toString", "hasOwnProperty"}

\* models[name]: an own property is the registered model (named by its key);
\* otherwise the member inherited from Object.prototype, else undefined.
ModelsLookup(name) ==
    IF name \in RegisteredModels THEN name
    ELSE IF name \in ObjectPrototypeKeys THEN "Fn"
    ELSE "U"

\* getNativeModel: if (model) return model; else return defaultModel.
getNativeModel(name) ==
    LET model == ModelsLookup(name)
    IN  IF model \notin {"U", "F"} THEN model ELSE "default"

\* Whether m.recorder / m.implementation is a function: true of the
\* registered models and of defaultModel, not of an Object.prototype member.
HasPhases(m) == m \in RegisteredModels \cup {"default"}

InitNative == Init

NativeResult(phase, name, model, recModel) ==
    [phase |-> phase, name |-> name, model |-> model, recModel |-> recModel,
     outcome |-> IF HasPhases(model) THEN "returned" ELSE "TypeError"]

\* useNativeRecorder: getNativeModel(description.name).recorder(...)
useNativeRecorder(name) ==
    /\ Len(recorded) < MaxPending
    /\ LET model == getNativeModel(name)
       IN  /\ nativeResult' = NativeResult("recorder", name, model, model)
           /\ recorded' = IF HasPhases(model)
                          THEN Append(recorded, [name |-> name, model |-> model])
                          ELSE recorded
    /\ UNCHANGED <<machineVars, modelVars>>

\* useNativeImplementation: getNativeModel(description.name).implementation(...)
\* for the oldest recorded call.
useNativeImplementation ==
    /\ recorded # <<>>
    /\ LET name  == Head(recorded).name
           model == getNativeModel(name)
       IN  nativeResult' = NativeResult("implementation", name, model,
                                        Head(recorded).model)
    /\ recorded' = Tail(recorded)
    /\ UNCHANGED <<machineVars, modelVars>>

NextNative ==
    \/ \E name \in BuiltinNames : useNativeRecorder(name)
    \/ useNativeImplementation

SpecNative == InitNative /\ [][NextNative]_vars

\* ------------------------------------------- native model implementations
\* Built-in names the native calls below are made with ("slice" has no
\* registered model).
NativeNames == RegisteredModels \cup {"slice"}

\* Concrete argument values Math.max is recorded with.
ConcreteValues == {"1", "2", "undefined", "null"}

\* A JavaScript number: a finite one, NaN or -Infinity.
Num(n) == [kind |-> "num", n |-> n]
NaN == [kind |-> "NaN", n |-> 0]
NegInfinity == [kind |-> "-Infinity", n |-> 0]

\* ToNumber of a concrete value.
ToNumber(v) ==
    CASE v = "1" -> Num(1)
      [] v = "2" -> Num(2)
      [] v = "null" -> Num(0)
      [] OTHER -> NaN

\* Math.max(...args)
MathMax(args) ==
    IF \E i \in 1..Len(args) : ToNumber(args[i]).kind = "NaN" THEN NaN
    ELSE IF args = <<>> THEN NegInfinity
    ELSE Num(CHOOSE n \in {ToNumber(args[i]).n : i \in 1..Len(args)} :
                \A j \in 1..Len(args) : ToNumber(args[j]).n <= n)

\* args[i] == max, for a max that is a number: null and undefined equal no
\* number.
LooseEquals(v, max) ==
    /\ max.kind = "num"
    /\ v \in {"1", "2"}
    /\ ToNumber(v) = max

\* What a recorder hands back: its record, or the error it threw.
Recorded(record) == [err |-> "none", record |-> record]
Thrown(err) == [err |-> err, record |-> Rec(0, "-")]

\* models.max.recorder
maxRecorder(args) ==
    LET max == MathMax(args)
        matches == {i \in 1..Len(args) : LooseEquals(args[i], max)}
    IN  IF max.kind = "NaN" THEN Recorded(Rec(-1, "-"))
        ELSE IF matches # {}
             THEN Recorded(Rec((CHOOSE i \in matches : \A j \in matches : i <= j) - 1, "-"))
             ELSE Thrown("NativeModelError")

\* The recorder of each model: push records receiver.length || 0, call the
\* name, defineProperty the shadow ids, max the index; the others nothing.
nativeRecorder(model, name, prevLen, args) ==
    CASE model = "push" -> Recorded(Rec(prevLen, "-"))
      [] model = "call" -> Recorded(Rec(0, name))
      [] model = "max" -> maxRecorder(args)
      [] OTHER -> Recorded(Rec(0, "-"))

\* machine.push([v, description])
machinePush(m, v) == [m EXCEPT !.taintStack = Append(@, v)]

\* machine.writeProperty([obj, prop, description]): pops one value and
\* stores it under the property of the object's shadow record.
machineWriteProperty(m, obj, kind, key) ==
    [m EXCEPT !.taintStack = PopStack(@),
              !.shadow[obj][kind] = MapSet(@, key, Top(m.taintStack))]

\* The taint machine.readProperty([obj, prop, description]) pushes and
\* returns: the stored one, untainted by default.
machineReadPropertyResult(m, obj, kind, key) ==
    Or(MapGet(m.shadow[obj][kind], key), Untainted)

\* machine.getShadowObject(name)
getShadowObject(m, name) == m.shadow[name]

\* machine.callstackPush(description)
callstackPush(m, frame) == [m EXCEPT !.callstack = Append(@, frame)]

\* machine.callstackPop()
callstackPop(m) == [m EXCEPT !.callstack = PopStack(@)]

\* machine.installAdvice(machine.functionExitAdvice, action)
installAdvice(m, action) == [m EXCEPT !.advice = action]

\* prepareFunctionCall: the function's taint, then the arguments' taints in
\* reverse order, and the number of arguments left to process.
prepareFunctionCall(m, functionTaint, args) ==
    [m EXCEPT !.taintStack =
                  Append(@, functionTaint)
                  \o [i \in 1..Len(args) |-> args[Len(args) - i + 1]],
              !.argsLeftToProcess = Len(args)]

\* popArgs: the receiver's taint if isMethod (untainted otherwise), the
\* actualArgs argument taints, popped last to first, and the builtin's taint.
popArgs(m, actualArgs, isMethod) ==
    LET st1 == IF isMethod THEN PopStack(m.taintStack) ELSE m.taintStack
        st2 == PopN(st1, actualArgs)
    IN  [m |-> [m EXCEPT !.taintStack = PopStack(st2)],
         builtinTaint |-> Top(st2),
         receiverTaint |-> IF isMethod THEN Top(m.taintStack) ELSE Untainted,
         args |-> [i \in 1..actualArgs |->
                      Popped(st1, actualArgs)[actualArgs - i + 1]]]

\* popArgsAndReportFlowsIntoBuiltin: popArgs, then reportPossibleFlow for
\* every argument taint.
popArgsAndReportFlowsIntoBuiltin(m, actualArgs, isMethod) ==
    LET p == popArgs(m, actualArgs, isMethod)
    IN  [p EXCEPT !.m.flows = @ \o p.args]

\* returnTaints: machine.taintStack.push(taint)
returnTaints(m, taint) == [m EXCEPT !.taintStack = Append(@, taint)]

\* array.reduce(machine.join, initial)
RECURSIVE Reduce(_, _)
Reduce(array, acc) ==
    IF array = <<>> THEN acc ELSE Reduce(Tail(array), Join(acc, Head(array)))

\* What an implementation leaves: the machine, and the error it threw.
Returned(m) == [m |-> m, err |-> "none"]
Threw(m, err) == [m |-> m, err |-> err]

defaultImplementation_IgnoresReceiver(m, c) ==
    LET p == popArgsAndReportFlowsIntoBuiltin(m, c.actualArgs, c.isMethod)
    IN  Returned(returnTaints(p.m, Reduce(p.args, Untainted)))

\* defaultImplementation
defaultImplementation(m, c) ==
    LET p == popArgsAndReportFlowsIntoBuiltin(m, c.actualArgs, c.isMethod)
    IN  Returned(returnTaints(p.m,
            Join(p.receiverTaint, Reduce(p.args, Untainted))))

pushImplementation_FromZero(m, c) ==
    LET p == popArgsAndReportFlowsIntoBuiltin(m, c.actualArgs, c.isMethod)
        shadowArray == getShadowObject(p.m, "arr")
        stored == [k \in DOMAIN shadowArray.idx \cup 0..(c.actualArgs - 1) |->
                      IF k \in 0..(c.actualArgs - 1)
                      THEN p.args[k + 1] ELSE shadowArray.idx[k]]
    IN  Returned(returnTaints([p.m EXCEPT !.shadow["arr"].idx = stored],
            Or(MapGet(shadowArray.named, "length"), Untainted)))

\* models.push.implementation
pushImplementation(m, c) ==
    LET p == popArgsAndReportFlowsIntoBuiltin(m, c.actualArgs, c.isMethod)
        shadowArray == getShadowObject(p.m, "arr")
        previousLength == c.record.n
        written == {previousLength + i : i \in 0..(c.actualArgs - 1)}
        stored == [k \in DOMAIN shadowArray.idx \cup written |->
                      IF k \in written
                      THEN p.args[k - previousLength + 1] ELSE shadowArray.idx[k]]
    IN  Returned(returnTaints([p.m EXCEPT !.shadow["arr"].idx = stored],
            Or(MapGet(shadowArray.named, "length"), Untainted)))

\* The property names a shadow record is written under.
NamedKeys == <<"length", "value", "p">>

\* The indices of a shadow record in ascending order.
RECURSIVE SortedIndices(_)
SortedIndices(S) ==
    IF S = {} THEN <<>>
    ELSE LET least == CHOOSE k \in S : \A j \in S : k <= j
         IN  <<least>> \o SortedIndices(S \ {least})

\* Object.values(shadowObject): integer keys ascending, then the named ones.
ObjectValues(o) ==
    [i \in 1..Cardinality(DOMAIN o.idx) |-> o.idx[SortedIndices(DOMAIN o.idx)[i]]]
    \o LET present == SelectSeq(NamedKeys, LAMBDA k : k \in DOMAIN o.named)
       IN  [i \in 1..Len(present) |-> o.named[present[i]]]

\* models.join.implementation: Object.values(shadowArray).reduce(machine.join)
\* has no initial value, so it throws a TypeError on an empty array.
joinImplementation(m, c) ==
    LET p == popArgsAndReportFlowsIntoBuiltin(m, c.actualArgs, c.isMethod)
        values == ObjectValues(getShadowObject(p.m, "arr"))
        separatorTaint == IF Len(p.args) > 0 THEN p.args[1] ELSE Untainted
    IN  IF values = <<>> THEN Threw(p.m, "TypeError")
        ELSE Returned(returnTaints(p.m,
                 Join(Reduce(Tail(values), Head(values)), separatorTaint)))

\* models.defineProperty.implementation: pushes the descriptor's value taint
\* and replays a writeProperty, which pops it again.
definePropertyImplementation(m, c) ==
    LET p == popArgsAndReportFlowsIntoBuiltin(m, c.actualArgs, c.isMethod)
        abstractPropertyValue == MapGet(getShadowObject(p.m, "desc").named, "value")
    IN  Returned(machineWriteProperty(machinePush(p.m, abstractPropertyValue),
                                      "obj", "named", "p"))

\* models.map.implementation: an empty body.
mapImplementation(m, c) == Returned(m)

callImplementation_NoFrame(m, c) ==
    LET p == popArgsAndReportFlowsIntoBuiltin(m, c.actualArgs, c.isMethod)
    IN  Returned(installAdvice(
            prepareFunctionCall(p.m, p.builtinTaint,
                                IF p.args = <<>> THEN <<>> ELSE Tail(p.args)),
            "callReturn"))

\* models.call.implementation: a call-stack frame for the builtin, the call
\* of the function with the arguments after the receiver, and the
\* function-exit advice.
callImplementation(m, c) ==
    LET p == popArgsAndReportFlowsIntoBuiltin(m, c.actualArgs, c.isMethod)
    IN  Returned(installAdvice(
            prepareFunctionCall(callstackPush(p.m, "builtin"), p.builtinTaint,
                                IF p.args = <<>> THEN <<>> ELSE Tail(p.args)),
            "callReturn"))

\* The function-exit advice models.call installs: the return value's taint,
\* then two call-stack frames popped.
callReturnAdvice(m) ==
    callstackPop(callstackPop(returnTaints(m, m.returnValue)))

\* models.max.implementation: argsTaint[extraRecords], undefined when the
\* record is the sentinel -1.
maxImplementation(m, c) ==
    LET p == popArgsAndReportFlowsIntoBuiltin(m, c.actualArgs, c.isMethod)
    IN  Returned(returnTaints(p.m,
            IF c.record.n \in 0..(Len(p.args) - 1)
            THEN p.args[c.record.n + 1] ELSE "U"))

\* getNativeModel(name).implementation(machine, ...)
nativeImplementation(model, m, c) ==
    CASE model = "push" -> pushImplementation(m, c)
      [] model = "join" -> joinImplementation(m, c)
      [] model = "defineProperty" -> definePropertyImplementation(m, c)
      [] model = "map" -> mapImplementation(m, c)
      [] model = "call" -> callImplementation(m, c)
      [] model = "max" -> maxImplementation(m, c)
      [] OTHER -> defaultImplementation(m, c)

\* ------------------------------------------------- native model calls
\* One more machine event of the trace.
EventStep == nSteps.events < MaxEvents /\ nSteps' = [nSteps EXCEPT !.events = @ + 1]

\* One more native call of the trace.
CallStep == nSteps.calls < MaxCalls /\ nSteps' = [nSteps EXCEPT !.calls = @ + 1]

\* Code runs between native calls and inside the function a call model
\* entered.
Running == ncall.phase \in {"idle", "entered"}

\* The machine's event handlers leave Spec's and SpecNative's variables alone.
ModelFrame == UNCHANGED <<machineVars, recorded, nativeResult>>

\* The analysis records a call of a built-in: getNativeModel(name).recorder.
NativeRecorder(name, isMethod, actualArgs, prevLen, values) ==
    /\ CallStep
    /\ ncall.phase = "idle"
    /\ LET model == getNativeModel(name)
           r == nativeRecorder(model, name, prevLen, values)
       IN  ncall' = [NoNativeCall EXCEPT
                        !.phase = IF r.err = "none" THEN "recorded" ELSE "idle",
                        !.op = "recorder", !.name = name, !.model = model,
                        !.isMethod = isMethod, !.actualArgs = actualArgs,
                        !.values = values, !.record = r.record,
                        !.outcome = IF r.err = "none" THEN "recorded" ELSE r.err]
    /\ UNCHANGED nm
    /\ ModelFrame

\* The generic calling convention: the builtin's taint, the arguments'
\* taints in source order, then the receiver's taint if isMethod (a call
\* without receiver has no receiver taint to choose).
CallingConvention(builtinTaint, args, receiverTaint) ==
    /\ UNCHANGED nSteps
    /\ ncall.phase = "recorded"
    /\ ncall.isMethod \/ receiverTaint = Untainted
    /\ nm' = [nm EXCEPT !.taintStack =
                 Append(@, builtinTaint) \o args
                 \o IF ncall.isMethod THEN <<receiverTaint>> ELSE <<>>]
    /\ ncall' = [ncall EXCEPT !.phase = "laid", !.op = "convention",
                              !.pre = nm.taintStack,
                              !.builtinTaint = builtinTaint,
                              !.receiverTaint = receiverTaint, !.args = args]
    /\ ModelFrame

\* The machine replays the call: getNativeModel(name).implementation.
NativeImplementation ==
    /\ UNCHANGED nSteps
    /\ ncall.phase = "laid"
    /\ LET r == nativeImplementation(ncall.model, nm, ncall)
       IN  /\ nm' = r.m
           /\ ncall' = [ncall EXCEPT
                           !.phase = IF ncall.model = "call" THEN "prepared" ELSE "idle",
                           !.op = "implementation",
                           !.outcome = IF r.err = "none" THEN "returned" ELSE r.err,
                           !.before = nm, !.overwritten = {}]
    /\ ModelFrame

\* Entry of the function the call model prepared: its own call-stack frame.
FunctionEnter ==
    /\ UNCHANGED nSteps
    /\ ncall.phase = "prepared"
    /\ nm' = callstackPush(nm, "function")
    /\ ncall' = [ncall EXCEPT !.phase = "entered", !.op = "functionEnter"]
    /\ ModelFrame

\* A return statement of the entered function sets machine.returnValue.
SetReturnValue(v) ==
    /\ UNCHANGED nSteps
    /\ ncall.phase = "entered"
    /\ nm' = [nm EXCEPT !.returnValue = v]
    /\ ncall' = [ncall EXCEPT !.op = "return"]
    /\ ModelFrame

\* The matching function return: the installed advice fires, once.
FunctionExit ==
    /\ UNCHANGED nSteps
    /\ ncall.phase = "entered"
    /\ nm.advice = "callReturn"
    /\ nm' = callReturnAdvice(installAdvice(nm, "none"))
    /\ ncall' = [ncall EXCEPT !.phase = "idle", !.op = "functionExit"]
    /\ ModelFrame

\* machine.push
MachinePush(v) ==
    /\ EventStep
    /\ Running
    /\ nm' = machinePush(nm, v)
    /\ ncall' = [ncall EXCEPT !.op = "push"]
    /\ ModelFrame

\* machine.writeProperty of an array element.
MachineWriteIndex(i) ==
    /\ EventStep
    /\ Running
    /\ nm' = machineWriteProperty(nm, "arr", "idx", i)
    /\ ncall' = [ncall EXCEPT !.op = "writeIndex", !.index = i,
                              !.overwritten = @ \cup {i}]
    /\ ModelFrame

\* machine.writeProperty of a named property.
MachineWriteNamed(obj, key) ==
    /\ EventStep
    /\ Running
    /\ nm' = machineWriteProperty(nm, obj, "named", key)
    /\ ncall' = [ncall EXCEPT !.op = "writeNamed", !.key = key]
    /\ ModelFrame

\* machine.readProperty of an array element.
MachineReadIndex(i) ==
    /\ EventStep
    /\ Running
    /\ LET result == machineReadPropertyResult(nm, "arr", "idx", i)
       IN  /\ nm' = machinePush(nm, result)
           /\ ncall' = [ncall EXCEPT !.op = "readIndex", !.index = i, !.ret = result]
    /\ ModelFrame

\* The sequences of the given length over a set.
SeqsOf(S, n) == [1..n -> S]

\* The named properties the trace writes: an array's length, a descriptor's
\* value.
NamedTargets == {<<"arr", "length">>, <<"desc", "value">>}

\* The array indices the trace reads: the ones a push can store at.
Indices == 0..(MaxPrevLen + MaxNativeArgs - 1)

\* The array index the trace writes before and after a native call.
WrittenIndices == {0}

NextModels ==
    \/ \E name \in NativeNames, isMethod \in BOOLEAN, actualArgs \in 0..MaxNativeArgs :
         \E prevLen \in IF name = "push" THEN 0..MaxPrevLen ELSE {0},
            values \in IF name = "max" THEN SeqsOf(ConcreteValues, actualArgs) ELSE {<<>>} :
            NativeRecorder(name, isMethod, actualArgs, prevLen, values)
    \/ \E builtinTaint \in Booleans, receiverTaint \in Booleans :
         \E args \in SeqsOf(Booleans, ncall.actualArgs) :
            CallingConvention(builtinTaint, args, receiverTaint)
    \/ NativeImplementation
    \/ FunctionEnter
    \/ \E v \in Booleans : SetReturnValue(v)
    \/ FunctionExit
    \/ \E v \in Booleans : MachinePush(v)
    \/ \E i \in WrittenIndices : MachineWriteIndex(i)
    \/ \E t \in NamedTargets : MachineWriteNamed(t[1], t[2])
    \/ \E i \in Indices : MachineReadIndex(i)

\* The native models run on their own machine; the options of the other one
\* are fixed.
InitModels == Init /\ sources = {}

SpecModels == InitModels /\ [][NextModels]_vars

\* ================================================================ claims
SinkSet == {sinks[i] : i \in 1..Len(sinks)}

ResettingOps == {"push", "pop", "readVar", "writeVar", "readProperty",
                 "writeProperty", "unaryOp", "binaryOp"}

\* C2: for every name in Sources, after any sequence of operations,
\* readVar(name) returns the tainted marker and leaves it on top of the stack.
C2_SourceOverride ==
    (lastOp.op = "readVar" /\ lastOp.s \in sources)
        => /\ ret = "T"
           /\ taintStack # <<>>
           /\ Top(taintStack) = "T"

\* C2 witness: a source was read while the Variable Map held an untainted
\* value under its name.
C2_Witness ==
    /\ lastOp.op = "readVar"
    /\ lastOp.s \in sources
    /\ lastOp.s \in DOMAIN varTaintMap
    /\ ~Truthy(varTaintMap[lastOp.s])

\* C7: functionCall(e, a) ends in Call State {FunctionCall, e}; push, pop,
\* readVar, writeVar, readProperty, writeProperty, unaryOp and binaryOp end
\* in {None, 0}; and an initVar that runs after one of them came between it
\* and the functionCall neither pops the stack nor changes the Variable Map.
C7_CallStateProtocol ==
    /\ [](/\ lastOp.op = "functionCall"
              => (state = "FunctionCall" /\ stateCounter = lastOp.e)
          /\ lastOp.op \in ResettingOps
              => (state = "None" /\ stateCounter = 0))
    /\ [][(call.interrupted /\ lastOp'.op = "initVar")
              => (taintStack' = taintStack /\ varTaintMap' = varTaintMap)]_vars

\* C7 witness: an initVar ran after a functionCall whose parameters were
\* still pending was interrupted, with a value on the stack it could have
\* popped.
C7_Witness ==
    /\ lastOp.op = "initVar"
    /\ call.interrupted
    /\ Len(call.bound) < call.e
    /\ taintStack # <<>>

\* Every machine operation is enabled, whatever the stack holds.
AcceptsEveryOperation ==
    /\ \A v \in Booleans : ENABLED Push(v)
    /\ ENABLED Pop
    /\ \A s \in VarNames : ENABLED ReadVar(s) /\ ENABLED WriteVar(s) /\ ENABLED InitVar(s)
    /\ \A o \in ObjectIds, s \in Keys :
          ENABLED ReadProperty(o, s) /\ ENABLED WriteProperty(o, s)
    /\ ENABLED UnaryOp
    /\ ENABLED BinaryOp
    /\ \A e \in 0..MaxArgs, a \in 0..MaxArgs : ENABLED FunctionCall(e, a)
    /\ ENABLED EndExecution
    /\ ENABLED GetTaintCall

\* C9: malformed traces never raise. pop on an empty stack leaves the stack,
\* the Variable Map and the Shadow Object Store unchanged; writeProperty and
\* writeVar on an empty stack store an untainted value (the tainted marker
\* when the key/name is a Source) and leave the stack empty; binaryOp and
\* functionCall on a stack with too few entries complete in a well-formed
\* state; and every operation stays enabled afterwards.
C9_MalformedTraces ==
    /\ [](nOps < MaxOps => AcceptsEveryOperation)
    /\ [][/\ (lastOp'.op = "pop" /\ taintStack = <<>>)
              => /\ taintStack' = <<>>
                 /\ varTaintMap' = varTaintMap
                 /\ objects' = objects
          /\ (lastOp'.op = "writeProperty" /\ taintStack = <<>>)
              => /\ taintStack' = <<>>
                 /\ lastOp'.o \in DOMAIN objects'
                 /\ lastOp'.s \in DOMAIN objects'[lastOp'.o]
                 /\ IF lastOp'.s \in sources
                    THEN objects'[lastOp'.o][lastOp'.s] = "T"
                    ELSE ~Truthy(objects'[lastOp'.o][lastOp'.s])
          /\ (lastOp'.op = "writeVar" /\ taintStack = <<>>)
              => /\ taintStack' = <<>>
                 /\ lastOp'.s \in DOMAIN varTaintMap'
                 /\ IF lastOp'.s \in sources
                    THEN varTaintMap'[lastOp'.s] = "T"
                    ELSE ~Truthy(varTaintMap'[lastOp'.s])
          /\ (\/ lastOp'.op = "binaryOp" /\ Len(taintStack) < 2
              \/ lastOp'.op = "functionCall" /\ Len(taintStack) < lastOp'.a)
              => /\ taintStack' \in Seq(Values)
                 /\ Len(taintStack') >= 1
                 /\ state' \in {"None", "FunctionCall"}
         ]_vars

\* C9 witness: a writeProperty on an empty stack, not the first operation of
\* the trace, stored undefined under a non-source key and left the stack
\* empty.
C9_Witness ==
    /\ lastOp.op = "writeProperty"
    /\ lastOp.s \notin sources
    /\ taintStack = <<>>
    /\ lastOp.o \in DOMAIN objects
    /\ lastOp.s \in DOMAIN objects[lastOp.o]
    /\ objects[lastOp.o][lastOp.s] = "U"
    /\ nOps >= 2

\* The source flag of a name, as the boolean sources.has(name) yields.
IsSource(s) == IF s \in sources THEN "T" ELSE "F"

\* Whether the most recent binding of variable s stored the tainted marker.
\* The marker enters the machine only through push(true) and the source
\* override, and assignment, property access and join only copy it, so a
\* stored value derives from a tainted value exactly when it is the marker.
LastBindingTainted(s) == s \in DOMAIN varTaintMap /\ varTaintMap[s] = "T"

\* C1: getTaint() returns exactly the Sink names whose most recent binding
\* in the Variable Map stored a value derived from a tainted value; and on a
\* fresh machine the trace readVar(s), writeVar(x), readVar(x), writeVar(t),
\* s a Source, t a Sink, x no other Sink, yields getTaint() = [t].
C1_SinkDetection ==
    /\ GetTaint = SelectSeq(sinks, LastBindingTainted)
    /\ (Len(scen) = 4 /\ scen[2] \notin SinkSet \ {scen[4]})
           => GetTaint = <<scen[4]>>

\* C3: after functionCall(e, a) with e >= a on a stack holding the a
\* argument taints, the e initVar calls that follow bind the i-th argument's
\* taint to the i-th formal for i <= a and an untainted value to the rest.
C3_UnderApplication ==
    (call.active /\ call.full /\ call.e >= call.a /\ Len(call.bound) = call.e)
        => \A i \in 1..call.e :
              IF i <= call.a THEN call.bound[i] = call.args[i]
              ELSE ~Truthy(call.bound[i])

\* The argument lists that differ from args only in the taint of the
\* arguments after the first e (the surplus ones).
SurplusVariants(args, e) ==
    { [i \in 1..Len(args) |-> IF i <= e THEN args[i] ELSE v[i]] :
        v \in [1..Len(args) -> Booleans] }

\* The stack after functionCall(e, a) and e parameter-binding initVar calls.
StackAfterBinding(st, e, a) == PopN(FunctionCallStack(st, e, a), e)

\* C4: for functionCall(e, a) with e < a followed by the e parameter-binding
\* initVar calls, the taint of the a - e surplus arguments is discarded: a
\* trace that differs only in their taint binds the same values and yields
\* the same getTaint() membership for every sink t after the continuation
\* writeVar(t).
C4_SurplusDiscarded ==
    (/\ call.active /\ call.full /\ ~call.interrupted
     /\ call.e < call.a /\ Len(call.bound) = call.e
     /\ state = "FunctionCall" /\ stateCounter = 0)
        => \A alt \in SurplusVariants(call.args, call.e) :
              LET twin == call.base \o alt IN
              /\ \A i \in 1..call.e :
                    Popped(FunctionCallStack(twin, call.e, call.a), call.e)[i]
                        = call.bound[i]
              /\ \A t \in SinkSet :
                    Truthy(Or(IsSource(t), Top(StackAfterBinding(twin, call.e, call.a))))
                        = Truthy(Or(IsSource(t), Top(taintStack)))

\* C5: functionCall(e, a) on a stack holding at least a entries leaves the
\* old stack without its top a entries, plus exactly e entries on top.
C5_FunctionCallDepth ==
    [][(lastOp'.op = "functionCall" /\ Len(taintStack) >= lastOp'.a)
          => /\ Len(taintStack') = Len(taintStack) - lastOp'.a + lastOp'.e
             /\ \A i \in 1..(Len(taintStack) - lastOp'.a) :
                   i <= Len(taintStack') /\ taintStack'[i] = taintStack[i]]_vars

\* The documented net effect of the operation op on the stack depth, in a
\* state where the stack is st.
DocumentedDelta(op, st, binds) ==
    CASE op \in {"push", "readVar", "readProperty"} -> 1
      [] op \in {"pop", "writeProperty"} -> IF Len(st) = 0 THEN 0 ELSE -1
      [] op \in {"writeVar", "unaryOp", "endExecution"} -> 0
      [] op = "initVar" -> IF binds THEN -1 ELSE 0
      [] OTHER -> -1

\* C6: every operation changes the stack depth by exactly its documented
\* net effect (binaryOp: -1 when at least two entries are present).
C6_StackBalance ==
    [][(\/ lastOp'.op \in {"push", "pop", "readVar", "readProperty", "writeVar",
                           "unaryOp", "endExecution", "writeProperty", "initVar"}
        \/ lastOp'.op = "binaryOp" /\ Len(taintStack) >= 2)
          => Len(taintStack') - Len(taintStack)
                = DocumentedDelta(lastOp'.op, taintStack, InitVarBinds)]_vars

\* C8: with no Sources and no push(true) in the trace, no stack entry, no
\* Variable Map entry and no Shadow Object Store entry is tainted, every
\* readVar/readProperty returns untainted, and getTaint() is empty.
C8_NoTaintFromNothing ==
    (sources = {} /\ ~pushedTaint)
        => /\ \A i \in 1..Len(taintStack) : ~Truthy(taintStack[i])
           /\ \A s \in DOMAIN varTaintMap : ~Truthy(varTaintMap[s])
           /\ \A o \in DOMAIN objects :
                 \A s \in DOMAIN objects[o] : ~Truthy(objects[o][s])
           /\ lastOp.op \in {"readVar", "readProperty"} => ~Truthy(ret)
           /\ GetTaint = <<>>

\* C10: for every built-in name that is not a registered model name the
\* lookup yields the default model and the recorder / implementation call
\* returns; and the model the implementation resolves is the one the
\* recorder resolved.
C10_RegistryLookup ==
    /\ (nativeResult.phase # "none" /\ nativeResult.name \notin RegisteredModels)
           => (nativeResult.model = "default" /\ nativeResult.outcome = "returned")
    /\ nativeResult.phase = "implementation"
           => nativeResult.model = nativeResult.recModel

\* C15: binaryOp on a stack whose two topmost entries are b (top) and a
\* leaves the old stack with those two entries removed and the single value
\* join(a, b) in their place.
C15_BinaryOpJoin ==
    [][(lastOp'.op = "binaryOp" /\ Len(taintStack) >= 2)
          => LET n == Len(taintStack) IN
             /\ Len(taintStack') = n - 1
             /\ SubSeq(taintStack', 1, n - 2) = SubSeq(taintStack, 1, n - 2)
             /\ Truthy(taintStack'[n - 1])
                   = (Truthy(taintStack[n - 1]) \/ Truthy(taintStack[n]))]_vars

\* C16: writeVar(name) stores (name in Sources, or the top of the stack)
\* under name, replacing any previous binding, and leaves the stack, every
\* other Variable Map entry and the Shadow Object Store unchanged; a
\* writeVar that follows stores the same pending value.
C16_WriteVarFrame ==
    [][lastOp'.op = "writeVar"
          => LET s == lastOp'.s IN
             /\ DOMAIN varTaintMap' = (DOMAIN varTaintMap) \cup {s}
             /\ varTaintMap'[s] = IF s \in sources THEN "T"
                                  ELSE IF taintStack = <<>> THEN "U"
                                  ELSE taintStack[Len(taintStack)]
             /\ \A x \in (DOMAIN varTaintMap) \ {s} : varTaintMap'[x] = varTaintMap[x]
             /\ taintStack' = taintStack
             /\ objects' = objects
             /\ (lastOp.op = "writeVar" /\ s \notin sources /\ lastOp.s \notin sources)
                   => varTaintMap'[s] = varTaintMap[lastOp.s]]_vars

\* C16 witness: two writeVar calls in a row stored the tainted pending
\* value under two different non-source names, and it is still on the stack.
C16_Witness ==
    /\ lastOp.op = "writeVar"
    /\ lastOp.s \notin sources
    /\ Top(taintStack) = "T"
    /\ \E x \in (DOMAIN varTaintMap) \ (sources \cup {lastOp.s}) :
          varTaintMap[x] = "T" /\ varTaintMap[lastOp.s] = "T"

\* C17: initVar(name) in Call State {FunctionCall, r}, r > 0, pops exactly
\* one value, binds it to name and leaves remaining r - 1; in every other
\* Call State it leaves the stack and the Variable Map unchanged and ends in
\* {None, 0}; so after functionCall(e, a) the first e consecutive initVar
\* calls bind and the next one binds nothing.
C17_InitVar ==
    /\ [](call.active
             => /\ Len(call.bound) <= call.e
                /\ (~call.interrupted /\ state = "FunctionCall")
                      => stateCounter = call.e - Len(call.bound))
    /\ [][lastOp'.op = "initVar"
             => IF state = "FunctionCall" /\ stateCounter > 0
                THEN /\ Len(taintStack) >= 1
                     /\ taintStack' = SubSeq(taintStack, 1, Len(taintStack) - 1)
                     /\ varTaintMap' = MapSet(varTaintMap, lastOp'.s,
                                              taintStack[Len(taintStack)])
                     /\ state' = "FunctionCall"
                     /\ stateCounter' = stateCounter - 1
                ELSE /\ taintStack' = taintStack
                     /\ varTaintMap' = varTaintMap
                     /\ state' = "None"
                     /\ stateCounter' = 0]_vars

\* C17 witness: after a functionCall with e >= 1 all e parameters were
\* bound and one more initVar ran, which reset the Call State.
C17_Witness ==
    /\ lastOp.op = "initVar"
    /\ call.active /\ ~call.interrupted
    /\ call.e >= 1
    /\ Len(call.bound) = call.e
    /\ state = "None"

\* C18: for a key k not in Sources, readProperty(obj, k) returns and pushes
\* the taint the most recent writeProperty(obj, k) stored, and untainted if
\* there was none, whatever else was written; for k in Sources it returns
\* tainted.
C18_ShadowRoundTrip ==
    lastOp.op = "readProperty"
        => /\ taintStack # <<>>
           /\ Top(taintStack) = ret
           /\ IF lastOp.s \in sources THEN ret = "T"
              ELSE IF /\ lastOp.o \in DOMAIN objects
                      /\ lastOp.s \in DOMAIN objects[lastOp.o]
                   THEN ret = objects[lastOp.o][lastOp.s]
                   ELSE ~Truthy(ret)

\* C19: functionCall(e, a) with e < a keeps every stack entry that lay
\* beneath the a argument entries, unchanged and in the same order.
C19_BeneathArgumentsKept ==
    [][(/\ lastOp'.op = "functionCall"
        /\ lastOp'.e < lastOp'.a
        /\ Len(taintStack) >= lastOp'.a)
          => \A i \in 1..(Len(taintStack) - lastOp'.a) :
                i <= Len(taintStack') /\ taintStack'[i] = taintStack[i]]_vars

\* The depth the calling convention's layout leaves after the implementation
\* popped its entries and pushed one return taint.
BalancedDepth == Len(ncall.before.taintStack) - ncall.actualArgs
                 - (IF ncall.isMethod THEN 1 ELSE 0)

\* C11: for every model of the registry and every call shape, the
\* implementation, run on the stack the calling convention laid out (builtin
\* taint, actualArgs argument taints, receiver taint if isMethod), pops those
\* entries and pushes exactly one return taint: the depth afterwards is the
\* depth before minus actualArgs (minus one more if isMethod), and what was
\* beneath the layout is untouched.
C11_NativeStackBalance ==
    ncall.op = "implementation" =>
        /\ Len(nm.taintStack) = BalancedDepth
        /\ SubSeq(nm.taintStack, 1, Len(ncall.pre)) = ncall.pre

\* C12: with recorded previous length p and n arguments, the array-push
\* implementation stores the i-th argument's taint at index p+i of the
\* receiver's shadow array and changes nothing else, so that a later
\* readProperty(arr, p+i) returns that taint; it pushes the array's prior
\* length taint, untainted if there is none.
C12_ArrayPush ==
    LET p == ncall.record.n
        n == ncall.actualArgs
        old == ncall.before.shadow["arr"]
        new == nm.shadow["arr"]
        written == {p + i : i \in 0..(n - 1)}
    IN  /\ (ncall.op = "implementation" /\ ncall.model = "push") =>
               /\ ncall.outcome = "returned"
               /\ DOMAIN new.idx = DOMAIN old.idx \cup written
               /\ \A i \in 0..(n - 1) : new.idx[p + i] = ncall.args[i + 1]
               /\ \A k \in DOMAIN old.idx \ written : new.idx[k] = old.idx[k]
               /\ new.named = old.named
               /\ \A o \in ShadowIds \ {"arr"} :
                      nm.shadow[o] = ncall.before.shadow[o]
               /\ Top(nm.taintStack) =
                      IF "length" \in DOMAIN old.named /\ Truthy(old.named["length"])
                      THEN old.named["length"] ELSE Untainted
        /\ (/\ ncall.op = "readIndex" /\ ncall.model = "push"
            /\ ncall.outcome = "returned"
            /\ ncall.index \in written \ ncall.overwritten) =>
               /\ ncall.ret = ncall.args[ncall.index - p + 1]
               /\ Top(nm.taintStack) = ncall.ret

\* C12 witness: previous length 2, two tainted arguments, and the later
\* readProperty(arr, 3) returned tainted.
C12_Witness ==
    /\ ncall.op = "readIndex" /\ ncall.model = "push"
    /\ ncall.outcome = "returned"
    /\ ncall.record.n = 2
    /\ ncall.args = <<"T", "T">>
    /\ ncall.index = 3
    /\ ncall.ret = "T"

\* C13: if the true maximum is NaN the max recorder returns the sentinel and
\* the implementation pushes the untainted value; otherwise the recorder
\* returns the index of an argument equal to the true maximum and the
\* implementation pushes that argument's taint; and if the result is not NaN
\* and no argument equals it, the recorder raises NativeModelError.
C13_MaxRecordReplay ==
    LET max == MathMax(ncall.values)
        equal == {i \in 1..Len(ncall.values) : LooseEquals(ncall.values[i], max)}
    IN  /\ (ncall.op = "recorder" /\ ncall.model = "max") =>
               IF max.kind = "NaN"
               THEN ncall.outcome = "recorded" /\ ncall.record.n = -1
               ELSE IF equal # {}
                    THEN ncall.outcome = "recorded" /\ ncall.record.n + 1 \in equal
                    ELSE ncall.outcome = "NativeModelError"
        /\ (ncall.op = "implementation" /\ ncall.model = "max") =>
               /\ ncall.outcome = "returned"
               /\ Top(nm.taintStack) =
                      IF max.kind = "NaN" THEN Untainted
                      ELSE ncall.args[ncall.record.n + 1]

\* C14: the call model's implementation pushes one call-stack frame and
\* installs the function-exit advice; while the advice has not fired the
\* call-stack depth stays above its value before the model ran; when it
\* fires, at the return of the entered function, it pushes exactly the
\* machine's return taint and pops two frames, which restores that depth,
\* and it does not fire again.
C14_CallContinuation ==
    /\ [](/\ (ncall.model = "call" /\ ncall.phase \in {"prepared", "entered"}) =>
                /\ nm.advice = "callReturn"
                /\ Len(nm.callstack) > Len(ncall.before.callstack)
          /\ (ncall.phase = "prepared") =>
                Len(nm.callstack) = Len(ncall.before.callstack) + 1
          /\ (ncall.op = "functionExit") =>
                /\ Len(nm.callstack) = Len(ncall.before.callstack)
                /\ nm.advice = "none"
                /\ ~ ENABLED FunctionExit)
    /\ [][(ncall'.op = "functionExit" /\ ncall' # ncall) =>
             /\ nm'.taintStack = Append(nm.taintStack, nm.returnValue)
             /\ Len(nm'.callstack) = Len(nm.callstack) - 2]_vars

\* C14 witness: the entered function returned a tainted value and the advice
\* forwarded it.
C14_Witness ==
    /\ ncall.op = "functionExit"
    /\ nm.returnValue = "T"
    /\ Top(nm.taintStack) = "T"
    /\ Len(nm.callstack) = Len(ncall.before.callstack)

\* C20: for every receiver shadow array, one with no recorded element taints
\* included, the array-join implementation completes and pushes
\* join(join of all element taints, separator taint), the separator taint
\* being the first argument's taint if there is one and untainted otherwise.
C20_ArrayJoin ==
    (ncall.op = "implementation" /\ ncall.model = "join") =>
        /\ ncall.outcome = "returned"
        /\ Top(nm.taintStack) =
               Join(Reduce(ObjectValues(ncall.before.shadow["arr"]), Untainted),
                    IF ncall.actualArgs > 0 THEN ncall.args[1] ELSE Untainted)

\* Whether the receiver (of a method call) or one of the arguments the
\* calling convention laid out is tainted.
AnyOperandTainted ==
    \/ ncall.isMethod /\ ncall.receiverTaint = "T"
    \/ \E i \in 1..ncall.actualArgs : ncall.args[i] = "T"

\* C21: for every actualArgs and isMethod, the default implementation pushes
\* the join of the receiver's taint (untainted when the call is no method
\* call) and all argument taints as the one return taint, and reports a
\* possible flow exactly once per argument, with that argument's taint, and
\* none for the receiver or the builtin.
C21_DefaultModel ==
    (ncall.op = "implementation" /\ ncall.model = "default") =>
        /\ ncall.outcome = "returned"
        /\ nm.taintStack =
               Append(ncall.pre, IF AnyOperandTainted THEN "T" ELSE Untainted)
        /\ nm.flows = ncall.before.flows \o ncall.args

\* C21 witness: a method call of a builtin without a model, with a tainted
\* receiver, an untainted builtin and two untainted arguments.
C21_Witness ==
    /\ ncall.op = "implementation" /\ ncall.model = "default"
    /\ ncall.isMethod /\ ncall.receiverTaint = "T"
    /\ ncall.builtinTaint = "F"
    /\ ncall.args = <<"F", "F">>
    /\ Top(nm.taintStack) = "T"
    /\ nm.flows = <<"F", "F">>

\* C22: in every reachable state getTaint() contains a sink s exactly when
\* readVar(s) would return tainted; in particular a name that is both a
\* Source and a Sink is always reported, also before it was ever written
\* and after a parameter-binding initVar stored an untainted value under it.
C22_SourceSinkReported ==
    \A s \in SinkSet :
        (\E i \in 1..Len(GetTaint) : GetTaint[i] = s) <=> Truthy(ReadVarResult(s))

\* C23: the remaining-parameter counter is never negative, it is 0 whenever
\* the mode is None, and it never exceeds the expectedArgs of the most
\* recent functionCall (it is 0 while there has been none).
C23_CallStateInvariant ==
    /\ stateCounter >= 0
    /\ state = "None" => stateCounter = 0
    /\ stateCounter <= (IF call.active THEN call.e ELSE 0)

\* C23 witness: one of the two parameters of the most recent functionCall is
\* bound, one remains.
C23_Witness ==
    /\ lastOp.op = "initVar"
    /\ call.active /\ call.e = 2 /\ Len(call.bound) = 1
    /\ state = "FunctionCall"
    /\ stateCounter = 1

\* The operations that only query the machine.
PureOps == {"getTaint", "endExecution"}

\* C24: getTaint() and endExecution() leave the stack, the Variable Map, the
\* Shadow Object Store, Sources, Sinks and the Call State unchanged; after
\* either, a functionCall's pending parameter binding is still pending; and
\* two consecutive getTaint() calls return the same result.
C24_PureQueries ==
    /\ []((/\ lastOp.op \in PureOps
           /\ call.active /\ ~call.interrupted
           /\ Len(call.bound) < call.e)
              => (InitVarBinds /\ stateCounter = call.e - Len(call.bound)))
    /\ [][(lastOp'.op \in PureOps /\ nOps' # nOps)
              => UNCHANGED <<taintStack, varTaintMap, objects, sources, sinks,
                             state, stateCounter>>]_vars
    /\ [][(lastOp.op = "getTaint" /\ lastOp'.op = "getTaint" /\ nOps' # nOps)
              => taints' = taints]_vars

\* C24 witness: getTaint() ran between a functionCall and its initVar calls,
\* reported a sink, and the parameter binding is still pending.
C24_Witness ==
    /\ lastOp.op = "getTaint"
    /\ taints # <<>>
    /\ call.active /\ ~call.interrupted /\ call.bound = <<>>
    /\ state = "FunctionCall"
    /\ stateCounter > 0
====
